---- MODULE Spec2Model ----
(***************************************************************************)
(* Model of src/renderer/renderer.js: the Renderer of vuexpress.            *)
(*                                                                         *)
(* One Renderer instance serves up to MaxCalls overlapping render calls.   *)
(* Every promise callback of the source is one action; the compiler, the   *)
(* async-data function and the render primitive are the environment, which *)
(* settles each pending operation one way or the other.                    *)
(*                                                                         *)
(* Strings are sequences of tokens: a template literal is the sequence of  *)
(* its literal pieces and interpolated values, and concatenation is \o.    *)
(***************************************************************************)
EXTENDS Integers, Sequences, FiniteSets, TLC

\* ------------------------------------------------------------------ bounds
MaxCalls == 2       \* overlapping render calls on the one Renderer
MaxPlugins == 2     \* length of options.plugins
MaxChunks == 2      \* chunks a body stream produces before it ends or fails
MaxRenderers == 2   \* Renderers constructed in the process

\* ------------------------------------------------------------ JS values
Undefined == "undefined"

\* `a || b` of JavaScript, for the values of this model (undefined is falsy)
JsOr(a, b) == IF a = Undefined THEN b ELSE a

Calls == 1..MaxCalls

\* Component modules the compiler can import.  "async.vue" declares asyncData.
Paths == {"plain.vue", "async.vue"}

HasAsyncData(path) == path = "async.vue"

\* The state argument of a render call: omitted, or an application state.
States == {Undefined, "S1"}

\* The options argument of a render call.  given = FALSE is an omitted
\* argument; url = Undefined is an options object without a url field.
NoOptions == [given |-> FALSE, url |-> Undefined, plain |-> FALSE]

WithUrl == [given |-> TRUE, url |-> "/x", plain |-> FALSE]

PlainOnly == [given |-> TRUE, url |-> Undefined, plain |-> TRUE]

\* The (path, state, options) a render call is made with.
Requests ==
    { [path |-> "plain.vue", state |-> Undefined, options |-> NoOptions],
      [path |-> "plain.vue", state |-> "S1", options |-> PlainOnly],
      [path |-> "async.vue", state |-> "S1", options |-> WithUrl],
      [path |-> "async.vue", state |-> Undefined, options |-> PlainOnly] }

\* ------------------------------------------------------------- plugins
\* options.plugins: entry i is either a module path (a string) or a loaded
\* plugin value.  A loaded value, and the module a path imports, is either
\* the installable itself or a wrapper holding it under `default`: the
\* even-numbered ones are wrappers.  The installable of entry i is i.
PluginEntry(i, type) == [type |-> type, id |-> i, wrapped |-> (i % 2 = 0)]

PluginLists ==
    UNION { { [i \in 1..n |-> PluginEntry(i, t[i])] :
                t \in [1..n -> {"string", "object"}] } : n \in 0..MaxPlugins }

\* ---------------------------------------------------------------- errors
\* type: the error class; origin/idx: which failure it is (its identity);
\* component/state: the annotations the Renderer adds.
NoError == [type |-> "none", origin |-> "none", idx |-> 0,
            component |-> Undefined, state |-> Undefined]

NewError(type, origin, idx) ==
    [type |-> type, origin |-> origin, idx |-> idx,
     component |-> Undefined, state |-> Undefined]

\* What an import of the compiler rejects with.
ImportError(origin, idx) == NewError("CompilerError", origin, idx)

\* What a body stream can fail with: a compiler error or any other error.
StreamErrors == { NewError("CompilerError", "stream", 0), NewError("Error", "stream", 0) }

\* What the string entry point of the render primitive can fail with.
StringRenderErrors == { NewError("Error", "render", 0) }

VARIABLES
    defaultPreCompile,  \* defaultRendererOptions.preCompile, the shared array
    renderers,  \* the Renderers constructed so far, the first one serving the calls
    load,       \* the promise of this.compiler.load(...) in init()
    plugins,    \* this.options.plugins
    thisVue,    \* this.Vue: Undefined until memoized, then "Vue"
    useLog,     \* the Vue.use calls made so far, in order: [plugin, by]
    calls,      \* the render calls: one record each
    events      \* what was emitted on the Renderer, in order

vars == <<defaultPreCompile, renderers, load, plugins, thisVue, useLog, calls, events>>

\* What the constructor and init() own: no render call touches it.
ctor == <<defaultPreCompile, renderers, load>>


\* ------------------------------------------------------ one render call
\* pc      where the call is:
\*           "idle"       not started
\*           "resolving"  getComponent's Promise.all is pending
\*           "asyncData"  the component is constructed, asyncData() is pending
\*           "ready"      getComponent resolved, the render callback is queued
\*           "rendering"  vueRenderer.renderToString is working
\*           "streaming"  the stream was handed to the caller
\*           "done"       nothing of the call is left to run
\* promise the promise renderToString / renderToStream returned
\* error   what the promise was rejected with
\* value   the string the promise resolved with (string path)
\* handed  the stream the promise resolved with (stream path)
\* pimp    the compiler.import of each string plugin this call started
\* vue     the promise this call's getVueClass() returned
\* cimp    the compiler.import of the component
\* log     the steps of the call, in the order the code ran them
\* loadWas the state of init()'s compiler.load when the call was made
\* pimpOrder  the string plugins of pimp, in the order their imports resolved
\* data    component._data
\* asyncResult  what asyncData() resolved with
\* seen    component._data when the render primitive was invoked
\* body    the stream vueRenderer.renderToStream returned
\* tr      the StreamTransform the body is piped through
NoStream == [status |-> "none", chunks |-> <<>>, error |-> NoError]

NoTransform == [status |-> "none", head |-> <<>>, tail |-> <<>>,
                first |-> TRUE, out |-> <<>>, error |-> NoError]

IdleCall ==
    [pc |-> "idle", kind |-> "none", path |-> Undefined, state |-> Undefined,
     options |-> NoOptions, context |-> [state |-> Undefined, url |-> Undefined],
     isPlain |-> FALSE, promise |-> "none", error |-> NoError, value |-> <<>>,
     handed |-> "none", pimp |-> <<>>, vue |-> "none", cimp |-> "none",
     asyncData |-> "none", rendered |-> <<>>, listening |-> FALSE,
     loadWas |-> "none", pimpOrder |-> <<>>, data |-> <<>>,
     asyncResult |-> <<>>, seen |-> <<>>,
     log |-> <<>>, body |-> NoStream, tr |-> NoTransform]

\* ------------------------------------------------- constructor and init
IsString(plugin) == plugin.type = "string"
IsObject(plugin) == plugin.type = "object"

\* The module path a string entry of options.plugins is
PluginPaths == <<"p1.js", "p2.js", "p3.js", "p4.js">>

PluginPath(plugin) == PluginPaths[plugin.id]

\* The preCompile option of the constructor: not supplied, or the caller's
\* array with what it holds.
NotSupplied == [supplied |-> FALSE, list |-> <<>>]

PreCompileOptions ==
    { NotSupplied,
      [supplied |-> TRUE, list |-> <<>>],
      [supplied |-> TRUE, list |-> <<"plain.vue">>] }

\* needCompiledPlugin of init(): the string entries of options.plugins
NeedCompiledPlugin(ps) ==
    LET strings == SelectSeq(ps, IsString)
    IN  [k \in 1..Len(strings) |-> PluginPath(strings[k])]

\* `this.options.preCompile.push(...needCompiledPlugin)`
PushNothing(array, need) == array

Push(array, need) == array \o need

\* `Object.assign({}, defaultRendererOptions, options)` copies the array
\* references: this.options.preCompile is the caller's array when the option
\* is supplied and defaultRendererOptions.preCompile itself when it is not.
\* init() pushes onto that array and hands it to compiler.load.
\*   given        the caller's array as it was passed
\*   callerArray  the caller's array after the constructor returned
\*   loaded       the list handed to compiler.load
Constructed(ps, opt, defaults) ==
    LET target == IF opt.supplied THEN opt.list ELSE defaults
        after == Push(target, NeedCompiledPlugin(ps))
    IN  [plugins |-> ps, supplied |-> opt.supplied, given |-> opt.list,
         callerArray |-> IF opt.supplied THEN after ELSE <<>>,
         loaded |-> after]

\* defaultRendererOptions.preCompile after such a construction
DefaultsAfter(ps, opt, defaults) ==
    IF opt.supplied THEN defaults ELSE Push(defaults, NeedCompiledPlugin(ps))

\* The state after `new Renderer(compiler, options)`, the first Renderer of
\* the process: init() has run and compiler.load is pending.
InitWith(opts) ==
    \E ps \in PluginLists, opt \in opts :
        /\ plugins = ps
        /\ renderers = << Constructed(ps, opt, <<>>) >>
        /\ defaultPreCompile = DefaultsAfter(ps, opt, <<>>)
        /\ load = "pending"
        /\ thisVue = Undefined
        /\ useLog = <<>>
        /\ calls = [c \in Calls |-> IdleCall]
        /\ events = <<>>

Init == InitWith({NotSupplied})

\* A further `new Renderer(compiler, options)` in the same process.
NewRenderer(ps, opt) ==
    /\ Len(renderers) < MaxRenderers
    /\ renderers' = Append(renderers, Constructed(ps, opt, defaultPreCompile))
    /\ defaultPreCompile' = DefaultsAfter(ps, opt, defaultPreCompile)
    /\ UNCHANGED <<load, plugins, thisVue, useLog, calls, events>>

\* `new ErrorTypes.BaseError(e)` of what compiler.load rejected with
LoadError == NewError("Error", "load", 0)

\* The load failure passed on as it came, not wrapped
NotWrapped(e) == e

\* `new ErrorTypes.BaseError(e)`
BaseError(e) == [e EXCEPT !.type = "BaseError"]

\* What the .catch of init() does to the render calls: nothing.
AfterLoadFailureRejecting(cs, e) ==
    [c \in DOMAIN cs |->
        IF cs[c].promise = "pending"
        THEN [cs[c] EXCEPT !.promise = "rejected", !.error = e, !.pc = "done"]
        ELSE cs[c]]

AfterLoadFailure(cs, e) == cs

\* compiler.load resolved: the .then of init() emits 'ready'.
LoadResolves ==
    /\ load = "pending"
    /\ load' = "resolved"
    /\ events' = Append(events, [name |-> "ready", from |-> 0, payload |-> NoError])
    /\ UNCHANGED <<defaultPreCompile, renderers, plugins, thisVue, useLog, calls>>

\* compiler.load rejected: the .catch of init() emits 'error'.
LoadRejects ==
    /\ load = "pending"
    /\ load' = "rejected"
    /\ events' = Append(events, [name |-> "error", from |-> 0,
                                 payload |-> BaseError(LoadError)])
    /\ calls' = AfterLoadFailure(calls, BaseError(LoadError))
    /\ UNCHANGED <<defaultPreCompile, renderers, plugins, thisVue, useLog>>

\* ------------------------------------------------------------ getVueClass
\* plugin.default && plugin.default.install ? Vue.use(plugin.default) : Vue.use(plugin)
VueUse(plugin, c) ==
    [plugin |-> plugin.id, form |-> IF plugin.wrapped THEN "default" ELSE "self", by |-> c]

\* The forEach loops of getVueClass: one Vue.use per plugin, in array order.
UseEach(ps, c) == [i \in 1..Len(ps) |-> VueUse(ps[i], c)]

\* No entry of options.plugins recognised as a string
NoneNeedCompiling == {}

\* needCompiledPlugins, as the indices of the string entries of options.plugins
NeedCompiledPlugins == { i \in 1..Len(plugins) : IsString(plugins[i]) }

\* `if (this.Vue)`: the memoized class short-circuits the resolution
NeverMemoized == FALSE

VueMemoized == thisVue # Undefined

\* The synchronous part of getVueClass() as call c runs it: what it does to
\* this.Vue and to the Vue.use log, and the promise it leaves call c with.
GetVueClass(c, call) ==
    IF VueMemoized
    THEN /\ UNCHANGED <<thisVue, useLog>>
         /\ call.vue = "resolved" /\ call.pimp = <<>>
    ELSE /\ useLog' = useLog \o UseEach(SelectSeq(plugins, IsObject), c)
         /\ IF NeedCompiledPlugins = {}
            THEN /\ thisVue' = "Vue"
                 /\ call.vue = "resolved" /\ call.pimp = <<>>
            ELSE /\ UNCHANGED thisVue
                 /\ call.vue = "pending"
                 /\ call.pimp = [i \in NeedCompiledPlugins |-> "pending"]

\* ---------------------------------------------------------- render calls
\* `state || {}` and `options ? options.url : '/'`
Context(state, options) ==
    [state |-> JsOr(state, "{}"),
     url |-> IF options.given THEN options.url ELSE "/"]

\* `options && options.plain`
IsPlain(options) == options.given /\ options.plain

\* The synchronous part of a render call: the context, then getComponent,
\* which calls getVueClass() and starts the import of the component.
\* Calls are numbered in the order they are made.
StartCall(c, kind, path, state, options) ==
    /\ calls[c].pc = "idle"
    /\ \A d \in Calls : d < c => calls[d].pc # "idle"
    /\ \E call \in { [IdleCall EXCEPT !.pc = "resolving", !.kind = kind,
                         !.path = path, !.state = state, !.options = options,
                         !.context = Context(state, options),
                         !.isPlain = IsPlain(options), !.promise = "pending",
                         !.cimp = "pending", !.vue = v, !.pimp = pi,
                         !.loadWas = load,
                         !.log = IF v = "resolved" THEN <<"vueClass">> ELSE <<>>] :
                       v \in {"resolved", "pending"},
                       pi \in {<<>>, [i \in NeedCompiledPlugins |-> "pending"]} } :
          /\ GetVueClass(c, call)
          /\ calls' = [calls EXCEPT ![c] = call]

RenderToString(c) ==
    /\ \E r \in Requests : StartCall(c, "string", r.path, r.state, r.options)
    /\ UNCHANGED <<ctor, plugins, events>>

RenderToStream(c) ==
    /\ \E r \in Requests : StartCall(c, "stream", r.path, r.state, r.options)
    /\ UNCHANGED <<ctor, plugins, events>>

\* A promise of call c rejects: the rejection runs through the Promise.all
\* of getComponent and the .then of the render call, none of which handles
\* it, so the call's promise is rejected with the same value.  A promise
\* settles once: a call already settled keeps what it has.
RejectAnnotated(call, e) ==
    IF call.promise = "pending"
    THEN [call EXCEPT !.promise = "rejected", !.pc = "done",
                      !.error = [e EXCEPT !.component = call.path]]
    ELSE call

Reject(call, e) ==
    IF call.promise = "pending"
    THEN [call EXCEPT !.promise = "rejected", !.error = e, !.pc = "done"]
    ELSE call

\* compiler.import(pluginPath) of call c settles.
PluginImportResolves(c, i) ==
    /\ i \in DOMAIN calls[c].pimp
    /\ calls[c].pimp[i] = "pending"
    /\ calls' = [calls EXCEPT ![c].pimp[i] = "resolved",
                              ![c].pimpOrder = Append(@, i)]
    /\ UNCHANGED <<ctor, plugins, thisVue, useLog, events>>

\* The first import to fail rejects Promise.all, and with it getVueClass().
PluginImportRejects(c, i) ==
    /\ i \in DOMAIN calls[c].pimp
    /\ calls[c].pimp[i] = "pending"
    /\ LET failed == [calls[c] EXCEPT !.pimp[i] = "rejected"]
       IN  calls' = [calls EXCEPT ![c] =
                IF failed.vue = "pending"
                THEN Reject([failed EXCEPT !.vue = "rejected"], ImportError("plugin", i))
                ELSE failed]
    /\ UNCHANGED <<ctor, plugins, thisVue, useLog, events>>

\* The .then of Promise.all in getVueClass: every import resolved, so the
\* imported plugins are installed in array order and this.Vue is set.
ImportedPlugins == SelectSeq(plugins, IsString)

\* The imported plugins in the order in which their imports resolved
InResolutionOrder(call) == [k \in 1..Len(call.pimpOrder) |-> plugins[call.pimpOrder[k]]]

\* The `plugins` the .then is called with: Promise.all resolves with the
\* values in the order of the promises it was given, not in the order in
\* which they resolved.
InstallOrder(call) == ImportedPlugins

\* `Promise.all(...)` of getVueClass resolved: every import did.
AllImportsResolved(call) == \A i \in DOMAIN call.pimp : call.pimp[i] = "resolved"

VueClassResolves(c) ==
    /\ calls[c].vue = "pending"
    /\ AllImportsResolved(calls[c])
    /\ useLog' = useLog \o UseEach(InstallOrder(calls[c]), c)
    /\ thisVue' = "Vue"
    /\ calls' = [calls EXCEPT ![c].vue = "resolved",
                              ![c].log = Append(@, "vueClass")]
    /\ UNCHANGED <<ctor, plugins, events>>

\* ----------------------------------------------------------- getComponent
\* compiler.import(path) of the component settles.
ComponentImportResolves(c) ==
    /\ calls[c].cimp = "pending"
    /\ calls' = [calls EXCEPT ![c].cimp = "resolved"]
    /\ UNCHANGED <<ctor, plugins, thisVue, useLog, events>>

ComponentImportRejects(c) ==
    /\ calls[c].cimp = "pending"
    /\ calls' = [calls EXCEPT ![c] =
            Reject([calls[c] EXCEPT !.cimp = "rejected"], ImportError("component", 0))]
    /\ UNCHANGED <<ctor, plugins, thisVue, useLog, events>>

\* Only the component import awaited, not getVueClass
ComponentResolved(call) == call.cimp = "resolved"

\* Promise.all([getVueClass(), import]) resolved: both promises did.
BothResolved(call) == call.vue = "resolved" /\ call.cimp = "resolved"

\* The static `data` option of the component definitions, which a new
\* instance starts with, and what asyncData() can resolve with.
StaticData == ("b" :> 2) @@ ("c" :> 4)

AsyncResults == { ("a" :> 1), ("a" :> 1) @@ ("b" :> 3) }

\* `Object.assign({}, component.$options.data, data)`
AssignFirstWins(first, second) ==
    [k \in DOMAIN first \cup DOMAIN second |->
        IF k \in DOMAIN first THEN first[k] ELSE second[k]]

Assign(first, second) ==
    [k \in DOMAIN first \cup DOMAIN second |->
        IF k \in DOMAIN second THEN second[k] ELSE first[k]]

\* The .then of getComponent: construct the component; with asyncData, call
\* it and wait, else the component is the result.
Construct(c) ==
    /\ calls[c].pc = "resolving"
    /\ BothResolved(calls[c])
    /\ calls' = [calls EXCEPT ![c] =
            IF HasAsyncData(calls[c].path)
            THEN [@ EXCEPT !.pc = "asyncData", !.asyncData = "pending",
                           !.data = StaticData,
                           !.log = @ \o <<"construct", "asyncData">>]
            ELSE [@ EXCEPT !.pc = "ready", !.data = StaticData,
                           !.log = Append(@, "construct")]]
    /\ UNCHANGED <<ctor, plugins, thisVue, useLog, events>>

\* asyncData() resolved: the data is merged and the component is the result.
AsyncDataResolves(c) ==
    /\ calls[c].pc = "asyncData"
    /\ calls[c].asyncData = "pending"
    /\ \E data \in AsyncResults :
          calls' = [calls EXCEPT ![c].asyncData = "resolved", ![c].pc = "ready",
                                 ![c].asyncResult = data,
                                 ![c].data = Assign(StaticData, data),
                                 ![c].log = Append(@, "merge")]
    /\ UNCHANGED <<ctor, plugins, thisVue, useLog, events>>

\* asyncData() rejected: .then(onFulfilled) has no rejection handler and the
\* executor of `new Promise((resolve) => ...)` never settles its promise, so
\* nothing of the call runs again and its promise stays pending.
AsyncDataRejects(c) ==
    /\ calls[c].pc = "asyncData"
    /\ calls[c].asyncData = "pending"
    /\ calls' = [calls EXCEPT ![c].asyncData = "rejected", ![c].pc = "done"]
    /\ UNCHANGED <<ctor, plugins, thisVue, useLog, events>>

\* ------------------------------------------------------- template html
\* component.$meta().inject(): the metadata of the rendered component, each
\* part with its text(); script has a second text, text({body: true}).
MetaInject ==
    [title |-> "title.text()", htmlAttrs |-> "htmlAttrs.text()",
     bodyAttrs |-> "bodyAttrs.text()", link |-> "link.text()",
     style |-> "style.text()", script |-> "script.text()",
     scriptBody |-> "script.text({body})", noscript |-> "noscript.text()",
     meta |-> "meta.text()"]

\* Renderer.getTemplateHtml: the two template literals, piece by piece.  The
\* first and the last literal piece are each cut in two, at the end of
\* "<!DOCTYPE html>" and at the start of "</html>".
GetTemplateHtml(m, state, globalVars) ==
    [head |-> <<"<!DOCTYPE html>", "\n<html ", m.htmlAttrs, ">\n<head>\n",
                m.meta, "\n", m.title, "\n", m.link, "\n", m.style, "\n",
                m.script, "\n", m.noscript, "\n</head>\n<body ",
                m.bodyAttrs, ">\n  ">>,
     tail |-> <<"\n", m.scriptBody, "</body>\n", "</html>">>]

\* this.options.globals: the default, an empty object
Globals == "{}"

\* ---------------------------------------------------------- renderToString
\* What vueRenderer.renderToString can hand its callback as the result.
Bodies == { <<"<div>">>, <<"<div>", "</div>">> }

\* The .then of renderToString: the render primitive is invoked.
InvokeRenderToString(c) ==
    /\ calls[c].pc = "ready"
    /\ calls[c].kind = "string"
    /\ calls' = [calls EXCEPT ![c].pc = "rendering", ![c].seen = calls[c].data,
                              ![c].log = Append(@, "render")]
    /\ UNCHANGED <<ctor, plugins, thisVue, useLog, events>>

\* The render error passed on without the component path
AnnotateNothing(e, path) == e

\* `e.component = path`
Annotate(e, path) == [e EXCEPT !.component = path]

\* `${indexHtml.head}${result}${indexHtml.tail}`, or the result alone
HtmlAlways(isPlain, template, result) == template.head \o result \o template.tail

Html(isPlain, template, result) ==
    IF isPlain THEN result ELSE template.head \o result \o template.tail

\* The callback of vueRenderer.renderToString, called with an error.
RenderToStringFails(c) ==
    /\ calls[c].pc = "rendering"
    /\ \E e \in StringRenderErrors :
          calls' = [calls EXCEPT ![c] =
                [@ EXCEPT !.promise = "rejected", !.pc = "done",
                          !.error = Annotate(e, calls[c].path)]]
    /\ UNCHANGED <<ctor, plugins, thisVue, useLog, events>>

\* The callback of vueRenderer.renderToString, called with the result.
RenderToStringSucceeds(c) ==
    /\ calls[c].pc = "rendering"
    /\ \E result \in Bodies :
          LET call == calls[c]
              template == GetTemplateHtml(MetaInject, call.context.state, Globals)
          IN  calls' = [calls EXCEPT ![c] =
                [@ EXCEPT !.promise = "resolved", !.pc = "done",
                          !.rendered = result,
                          !.value = Html(call.isPlain, template, result),
                          !.log = IF call.isPlain THEN @ ELSE Append(@, "meta")]]
    /\ UNCHANGED <<ctor, plugins, thisVue, useLog, events>>

\* --------------------------------------------------------- StreamTransform
\* new StreamTransform(head, tail)
NewStreamTransform(head, tail) ==
    [status |-> "open", head |-> head, tail |-> tail, first |-> TRUE,
     out |-> <<>>, error |-> NoError]

\* A chunk arrives: the head goes out before the first one.
TransformWrite(tr, chunk) ==
    [tr EXCEPT !.out = @ \o (IF tr.first THEN tr.head ELSE <<>>) \o <<chunk>>,
               !.first = FALSE]

\* The upstream ended: the tail goes out, then the transform ends.
TransformEnd(tr) == [tr EXCEPT !.out = @ \o tr.tail, !.status = "ended"]

\* The upstream failed: the error is forwarded and no tail goes out.
TransformUpstreamError(tr, e) == [tr EXCEPT !.status = "errored", !.error = e]

\* ---------------------------------------------------------- renderToStream
\* The chunks of a body stream: the k-th chunk is ChunkNames[k].
ChunkNames == <<"x", "y", "z", "w">>

\* `new ErrorTypes.RenderError(e)`
RenderError(e) == [e EXCEPT !.type = "RenderError"]

\* The 'error' listener of the body stream: what it emits on the Renderer.
StreamErrorPayloadContextState(e, path, state, context) ==
    IF e.type = "CompilerError"
    THEN e
    ELSE [RenderError(e) EXCEPT !.component = path, !.state = context.state]

StreamErrorPayload(e, path, state, context) ==
    IF e.type = "CompilerError"
    THEN e
    ELSE [RenderError(e) EXCEPT !.component = path, !.state = state]

\* Whether bodyStream.on('error', ...) has run when the stream is returned.
ListensUnlessPlain(isPlain) == ~isPlain

Listens(isPlain) == TRUE

\* `new StreamTransform(template.head, template.tail)`
TransformOfSwapped(template) == NewStreamTransform(template.tail, template.head)

TransformOf(template) == NewStreamTransform(template.head, template.tail)

\* The .then of renderToStream: the body stream is obtained, the listener
\* attached, and the stream or the transform it is piped through returned.
InvokeRenderToStream(c) ==
    /\ calls[c].pc = "ready"
    /\ calls[c].kind = "stream"
    /\ LET call == calls[c]
           template == GetTemplateHtml(MetaInject, call.context.state, Globals)
           listens == Listens(call.isPlain)
           steps == <<"render">> \o (IF listens THEN <<"listen">> ELSE <<>>)
                    \o (IF call.isPlain THEN <<>> ELSE <<"meta", "pipe">>)
                    \o <<"handed">>
       IN  calls' = [calls EXCEPT ![c] =
                [@ EXCEPT !.pc = "streaming", !.promise = "resolved",
                          !.seen = call.data,
                          !.body = [NoStream EXCEPT !.status = "open"],
                          !.listening = listens,
                          !.tr = IF call.isPlain THEN NoTransform
                                 ELSE TransformOf(template),
                          !.handed = IF call.isPlain THEN "bodyStream"
                                     ELSE "transform",
                          !.log = @ \o steps]]
    /\ UNCHANGED <<ctor, plugins, thisVue, useLog, events>>

Piped(call) == call.tr.status # "none"

\* What `bodyStream.pipe(transform)` does to the transform when the body
\* stream fails: it never calls transform.end(); the failure is the
\* transform's to forward.
PipeErrorEndsTransform(tr, e) == TransformEnd(tr)

PipeError(tr, e) == TransformUpstreamError(tr, e)

\* The body stream produces its next chunk; pipe writes it to the transform.
BodyChunk(c) ==
    /\ calls[c].body.status = "open"
    /\ Len(calls[c].body.chunks) < MaxChunks
    /\ LET chunk == ChunkNames[Len(calls[c].body.chunks) + 1]
       IN  calls' = [calls EXCEPT ![c] =
                [@ EXCEPT !.body.chunks = Append(@, chunk),
                          !.tr = IF Piped(calls[c]) THEN TransformWrite(@, chunk)
                                 ELSE @]]
    /\ UNCHANGED <<ctor, plugins, thisVue, useLog, events>>

\* The body stream ends; pipe ends the transform.
BodyEnd(c) ==
    /\ calls[c].body.status = "open"
    /\ calls' = [calls EXCEPT ![c] =
            [@ EXCEPT !.body.status = "ended", !.pc = "done",
                      !.tr = IF Piped(calls[c]) THEN TransformEnd(@) ELSE @]]
    /\ UNCHANGED <<ctor, plugins, thisVue, useLog, events>>

\* The body stream emits 'error': the listener emits on the Renderer.
BodyError(c) ==
    /\ calls[c].body.status = "open"
    /\ \E e \in StreamErrors :
          LET call == calls[c] IN
          /\ calls' = [calls EXCEPT ![c] =
                [@ EXCEPT !.body.status = "errored", !.body.error = e,
                          !.pc = "done",
                          !.tr = IF Piped(call) THEN PipeError(@, e)
                                 ELSE @]]
          /\ events' = IF call.listening
                       THEN Append(events,
                              [name |-> "error", from |-> c,
                               payload |-> StreamErrorPayload(e, call.path,
                                               call.state, call.context)])
                       ELSE events
    /\ UNCHANGED <<ctor, plugins, thisVue, useLog>>

\* The render calls of the one Renderer.
Next ==
    \/ \E c \in Calls : RenderToString(c)
    \/ \E c \in Calls : RenderToStream(c)
    \/ \E c \in Calls, i \in 1..MaxPlugins : PluginImportResolves(c, i)
    \/ \E c \in Calls, i \in 1..MaxPlugins : PluginImportRejects(c, i)
    \/ \E c \in Calls : VueClassResolves(c)
    \/ \E c \in Calls : ComponentImportResolves(c)
    \/ \E c \in Calls : ComponentImportRejects(c)
    \/ \E c \in Calls : Construct(c)
    \/ \E c \in Calls : AsyncDataResolves(c)
    \/ \E c \in Calls : AsyncDataRejects(c)
    \/ \E c \in Calls : InvokeRenderToString(c)
    \/ \E c \in Calls : RenderToStringFails(c)
    \/ \E c \in Calls : RenderToStringSucceeds(c)
    \/ \E c \in Calls : InvokeRenderToStream(c)
    \/ \E c \in Calls : BodyChunk(c)
    \/ \E c \in Calls : BodyEnd(c)
    \/ \E c \in Calls : BodyError(c)

\* The render calls, for as long as compiler.load has not settled.
Spec == Init /\ [][Next]_vars

\* The render calls and init()'s compiler.load settling among them.
NextLoad ==
    \/ LoadResolves
    \/ LoadRejects
    \/ Next

\* To keep the interleavings of compiler.load with two render calls within
\* reach, the plugin lists of this specification are one entry shorter.
InitLoad == Init /\ Len(plugins) < MaxPlugins

SpecLoad == InitLoad /\ [][NextLoad]_vars

\* Renderers constructed one after the other, with every preCompile option.
NextInit == \E ps \in PluginLists, opt \in PreCompileOptions : NewRenderer(ps, opt)

SpecInit == InitWith(PreCompileOptions) /\ [][NextInit]_vars

\* ================================================================ claims
Last(seq) == seq[Len(seq)]

\* The Vue.use calls that installed plugin p
UsesOf(p) == { k \in DOMAIN useLog : useLog[k].plugin = p }

\* C1: however many render calls overlap before getVueClass() first
\* resolves, every configured plugin is passed to Vue.use at most once, and
\* only one call performs installation.
C1_InstalledAtMostOnce ==
    /\ \A p \in 1..MaxPlugins : Cardinality(UsesOf(p)) <= 1
    /\ Cardinality({ useLog[k].by : k \in DOMAIN useLog }) <= 1

\* C2: once this.Vue is set it never changes, and a getVueClass() call made
\* after that resolves at once with the class, starting no plugin import and
\* making no Vue.use call.
C2_MemoizedClassIsReused ==
    [][ thisVue # Undefined =>
          /\ thisVue' = thisVue
          /\ \A c \in Calls :
                (calls[c].pc = "idle" /\ calls'[c].pc # "idle") =>
                    /\ useLog' = useLog
                    /\ calls'[c].vue = "resolved"
                    /\ calls'[c].pimp = <<>> ]_vars

\* A call made after memoization, with string plugins configured, took the
\* short path.
C2_Witness ==
    \E c \in Calls :
        /\ NeedCompiledPlugins # {}
        /\ calls[c].pc # "idle"
        /\ calls[c].pimp = <<>>
        /\ calls[c].vue = "resolved"
        /\ useLog # <<>>

\* The imports of call c that failed, as the errors they failed with
FailedImports(call) ==
    { ImportError("plugin", i) : i \in { j \in DOMAIN call.pimp : call.pimp[j] = "rejected" } }
    \cup (IF call.cimp = "rejected" THEN { ImportError("component", 0) } ELSE {})

\* C3: a render call with a failed compiler import (of the component or of
\* a string plugin) is rejected with the error of one of its failed imports,
\* unchanged, and the render primitive is never invoked for it.
C3_ImportFailureRejectsWithSameError ==
    \A c \in Calls :
        FailedImports(calls[c]) # {} =>
            /\ calls[c].promise = "rejected"
            /\ calls[c].error \in FailedImports(calls[c])
            /\ \A k \in DOMAIN calls[c].log : calls[c].log[k] # "render"
            /\ calls[c].body.status = "none"

\* A stream call rejected by its component import and a string call rejected
\* by a plugin import.
C3_Witness ==
    /\ \E c \in Calls :
          /\ calls[c].kind = "stream"
          /\ calls[c].cimp = "rejected"
          /\ calls[c].error = ImportError("component", 0)
    /\ \E c \in Calls :
          /\ calls[c].kind = "string"
          /\ calls[c].vue = "rejected"
          /\ calls[c].error.origin = "plugin"

\* C4: a render call whose async-data function failed is rejected.
C4_AsyncDataFailureRejectsCall ==
    \A c \in Calls :
        calls[c].asyncData = "rejected" => calls[c].promise = "rejected"

\* The 'error' events on the Renderer that come from the body stream of c
ErrorEventsOf(c) ==
    { k \in DOMAIN events : events[k].name = "error" /\ events[k].from = c }

\* C5: a body stream that emitted an error has exactly one 'error' event on
\* the Renderer (and one that did not has none): a compiler error is the
\* payload as it is, any other error is wrapped in a render error whose
\* component is the path and whose state is the state argument of the call.
C5_StreamErrorEvent ==
    \A c \in Calls :
        LET call == calls[c]
            e == call.body.error
        IN  IF call.body.status = "errored"
            THEN /\ Cardinality(ErrorEventsOf(c)) = 1
                 /\ \A k \in ErrorEventsOf(c) :
                       events[k].payload =
                          IF e.type = "CompilerError"
                          THEN e
                          ELSE [type |-> "RenderError", origin |-> e.origin,
                                idx |-> e.idx, component |-> call.path,
                                state |-> call.state]
            ELSE ErrorEventsOf(c) = {}

\* One body stream failed with a plain error in a call made without a
\* state, another with a compiler error.
C5_Witness ==
    /\ \E c \in Calls :
          /\ calls[c].body.status = "errored"
          /\ calls[c].body.error.type = "Error"
          /\ calls[c].state = Undefined
    /\ \E c \in Calls :
          /\ calls[c].body.status = "errored"
          /\ calls[c].body.error.type = "CompilerError"

\* The position of a step in the log of a call (0: not there)
StepAt(call, step) ==
    IF \E k \in DOMAIN call.log : call.log[k] = step
    THEN CHOOSE k \in DOMAIN call.log : call.log[k] = step
    ELSE 0

\* C6: when a stream has been handed to the caller its error listener was
\* attached before, and a body stream that fails afterwards leaves the
\* promise resolved and has its failure as an 'error' event on the Renderer.
C6_StreamFailureIsAnEventOnly ==
    \A c \in Calls :
        LET call == calls[c]
        IN  call.handed # "none" =>
                /\ call.listening
                /\ 0 < StepAt(call, "listen")
                /\ StepAt(call, "listen") < StepAt(call, "handed")
                /\ call.promise = "resolved"
                /\ call.error = NoError
                /\ call.body.status = "errored" => ErrorEventsOf(c) # {}

\* A raw body stream was handed out, produced a chunk and then failed.
C6_Witness ==
    \E c \in Calls :
        /\ calls[c].handed = "bodyStream"
        /\ calls[c].body.status = "errored"
        /\ calls[c].body.chunks # <<>>

\* The template of call c, as renderToStream / renderToString compute it
TemplateOf(call) == GetTemplateHtml(MetaInject, call.context.state, Globals)

\* C7: the transform a non-plain renderToStream returned has emitted the
\* head and then the chunks c1..cn (n >= 1) the body stream produced so far,
\* unmodified and in order; when the body stream has ended it has emitted
\* the tail after them and has ended itself, and not before.
C7_CleanStreamIsHeadChunksTail ==
    \A c \in Calls :
        LET call == calls[c]
        IN  (call.handed = "transform" /\ call.body.chunks # <<>>) =>
                /\ call.body.status = "open" =>
                      /\ call.tr.out = TemplateOf(call).head \o call.body.chunks
                      /\ call.tr.status = "open"
                /\ call.body.status = "ended" =>
                      /\ call.tr.out = TemplateOf(call).head \o call.body.chunks
                                          \o TemplateOf(call).tail
                      /\ call.tr.status = "ended"

\* A piped body stream produced two chunks and ended.
C7_Witness ==
    \E c \in Calls :
        /\ calls[c].handed = "transform"
        /\ calls[c].body.status = "ended"
        /\ Len(calls[c].body.chunks) >= 2
        /\ calls[c].tr.status = "ended"

\* C8: when the body stream of a non-plain renderToStream fails after some
\* chunks, the transform has failed with the same error and its output is
\* the head and the chunks delivered so far, with no tail.
C8_UpstreamErrorForwardedNoTail ==
    \A c \in Calls :
        LET call == calls[c]
        IN  (call.handed = "transform" /\ call.body.status = "errored"
               /\ call.body.chunks # <<>>) =>
                /\ call.tr.status = "errored"
                /\ call.tr.error = call.body.error
                /\ call.tr.out = TemplateOf(call).head \o call.body.chunks

\* A piped body stream produced a chunk and failed.
C8_Witness ==
    \E c \in Calls :
        /\ calls[c].handed = "transform"
        /\ calls[c].body.status = "errored"
        /\ calls[c].body.chunks # <<>>
        /\ calls[c].tr.status = "errored"

\* C9: a resolved renderToString has the raw output of the render primitive
\* as its value when options.plain is true, and otherwise a string that
\* starts with <!DOCTYPE html>, ends with </html> and is head, raw output,
\* tail.
C9_RenderToStringValue ==
    \A c \in Calls :
        LET call == calls[c]
            t == TemplateOf(call)
        IN  (call.kind = "string" /\ call.promise = "resolved") =>
                IF call.options.given /\ call.options.plain
                THEN call.value = call.rendered
                ELSE /\ call.value = t.head \o call.rendered \o t.tail
                     /\ Head(call.value) = "<!DOCTYPE html>"
                     /\ Last(call.value) = "</html>"
                     /\ Head(t.head) = "<!DOCTYPE html>"
                     /\ Last(t.tail) = "</html>"

\* A plain and a wrapped renderToString have both resolved.
C9_Witness ==
    /\ \E c \in Calls :
          /\ calls[c].kind = "string" /\ calls[c].promise = "resolved"
          /\ calls[c].options.plain
    /\ \E c \in Calls :
          /\ calls[c].kind = "string" /\ calls[c].promise = "resolved"
          /\ ~calls[c].options.given
          /\ Len(calls[c].rendered) = 2

\* C10: the context of a render call is {state, url} with state the state
\* argument or {} without one, and url options.url or '/' without one,
\* whether options is omitted or has no url field.
C10_ContextDefaults ==
    \A c \in Calls :
        calls[c].pc # "idle" =>
            calls[c].context =
                [state |-> IF calls[c].state = Undefined THEN "{}" ELSE calls[c].state,
                 url |-> IF calls[c].options.given /\ calls[c].options.url # Undefined
                         THEN calls[c].options.url
                         ELSE "/"]

\* What init() emitted on the Renderer
InitEvents == { k \in DOMAIN events : events[k].from = 0 }

C12_LoadFailureRejectsNoCall ==
    [][ /\ \A c \in Calls :
              calls'[c].promise = "rejected" => calls'[c].error.origin # "load"
        /\ (load = "pending" /\ load' = "rejected") =>
              /\ calls' = calls
              /\ thisVue' = thisVue /\ useLog' = useLog
              /\ Len(events') = Len(events) + 1
              /\ events'[Len(events')].name = "error" ]_vars

\* compiler.load failed; a call made while it was pending and a call made
\* after the failure have both resolved.
C12_Witness ==
    /\ load = "rejected"
    /\ \E c \in Calls : calls[c].loadWas = "pending" /\ calls[c].promise = "resolved"
    /\ \E c \in Calls : calls[c].loadWas = "rejected" /\ calls[c].promise = "resolved"

\* C13: the list init() handed to compiler.load holds the path of every
\* string entry of the Renderer's plugins, whatever the preCompile option.
C13_PreCompileHasStringPlugins ==
    \A n \in DOMAIN renderers :
        LET r == renderers[n]
        IN  \A k \in DOMAIN r.plugins :
                IsString(r.plugins[k]) =>
                    \E j \in DOMAIN r.loaded : r.loaded[j] = PluginPath(r.plugins[k])

\* A Renderer with a string plugin and its own preCompile list, and one
\* with a string plugin and none.
C13_Witness ==
    /\ \E n \in DOMAIN renderers :
          /\ renderers[n].supplied /\ renderers[n].given # <<>>
          /\ \E k \in DOMAIN renderers[n].plugins : IsString(renderers[n].plugins[k])
    /\ \E n \in DOMAIN renderers :
          /\ ~renderers[n].supplied
          /\ \E k \in DOMAIN renderers[n].plugins : IsString(renderers[n].plugins[k])

\* C14: the default preCompile list stays empty, a caller's preCompile
\* array is left as it was passed, and a Renderer constructed without a
\* preCompile option preloads exactly its own string plugins.
C14_DefaultsAreFixed ==
    /\ defaultPreCompile = <<>>
    /\ \A n \in DOMAIN renderers :
          LET r == renderers[n]
          IN  /\ r.supplied => r.callerArray = r.given
              /\ ~r.supplied => r.loaded = NeedCompiledPlugin(r.plugins)

\* How often a step is in the log of a call
TimesIn(call, step) == Cardinality({ k \in DOMAIN call.log : call.log[k] = step })

\* C15: a renderToString whose render primitive reported a failure is
\* rejected with that error, its component set to the requested path; the
\* render primitive was invoked once and the call has resolved with nothing.
C15_RenderFailureRejectsAnnotated ==
    \A c \in Calls :
        LET call == calls[c]
        IN  /\ TimesIn(call, "render") <= 1
            /\ (call.kind = "string" /\ call.error.origin = "render") =>
                  /\ call.promise = "rejected"
                  /\ call.error \in { [e EXCEPT !.component = call.path] :
                                         e \in StringRenderErrors }
                  /\ call.error.component = call.path
                  /\ TimesIn(call, "render") = 1
                  /\ call.value = <<>>

\* The render primitive failed in a renderToString.
C15_Witness ==
    \E c \in Calls :
        /\ calls[c].kind = "string"
        /\ calls[c].error.origin = "render"
        /\ calls[c].promise = "rejected"

\* Step a of the call's log is there and comes before step b
Before(call, a, b) == 0 < StepAt(call, a) /\ StepAt(call, a) < StepAt(call, b)

\* C16: in every render call, whatever the other calls do, getVueClass has
\* resolved with every configured plugin installed before the component is
\* constructed; construction comes before asyncData is invoked, its
\* resolution (the merge) before the render primitive is invoked, and the
\* metadata is read after the render primitive produced its output (string
\* path) or its stream (stream path).
C16_StepsInOrder ==
    \A c \in Calls :
        LET call == calls[c]
            has(step) == StepAt(call, step) > 0
        IN  /\ has("construct") =>
                  /\ Before(call, "vueClass", "construct")
                  /\ thisVue # Undefined
                  /\ \A i \in DOMAIN plugins : UsesOf(i) # {}
            /\ has("asyncData") => Before(call, "construct", "asyncData")
            /\ has("merge") => Before(call, "asyncData", "merge")
            /\ has("render") =>
                  /\ Before(call, "construct", "render")
                  /\ HasAsyncData(call.path) => Before(call, "merge", "render")
            /\ has("meta") =>
                  /\ Before(call, "render", "meta")
                  /\ call.kind = "string" => call.rendered # <<>>
                  /\ call.kind = "stream" => call.body.status # "none"

\* A wrapped renderToString of the asyncData component that imported its own
\* string plugins has read the metadata, while another call is under way.
C16_Witness ==
    \E c, d \in Calls :
        /\ c # d
        /\ calls[c].kind = "string"
        /\ HasAsyncData(calls[c].path)
        /\ calls[c].pimp # <<>>
        /\ StepAt(calls[c], "meta") > 0
        /\ calls[d].pc \in {"resolving", "asyncData", "streaming"}

\* C17: with asyncData, the data of the resolved instance is the static data
\* overlaid with the async result, the async value on every shared key, and
\* the render primitive is invoked after the merge, with the merged data;
\* without asyncData the instance is the result right after construction,
\* with no async-data step.
C17_AsyncDataMergedOverStatic ==
    \A c \in Calls :
        LET call == calls[c]
        IN  StepAt(call, "construct") > 0 =>
              IF HasAsyncData(call.path)
              THEN /\ call.asyncData = "resolved" =>
                         /\ DOMAIN call.data = DOMAIN StaticData \cup DOMAIN call.asyncResult
                         /\ \A k \in DOMAIN call.data :
                               call.data[k] = IF k \in DOMAIN call.asyncResult
                                              THEN call.asyncResult[k]
                                              ELSE StaticData[k]
                   /\ StepAt(call, "render") > 0 =>
                         /\ call.asyncData = "resolved"
                         /\ Before(call, "merge", "render")
                         /\ call.seen = call.data
              ELSE /\ call.asyncData = "none"
                   /\ StepAt(call, "asyncData") = 0 /\ StepAt(call, "merge") = 0
                   /\ call.pc # "asyncData"
                   /\ call.data = StaticData
                   /\ StepAt(call, "render") > 0 => call.seen = StaticData

\* asyncData resolved with a key the static data has too, and the component
\* was rendered; another component without asyncData was rendered.
C17_Witness ==
    /\ \E c \in Calls :
          /\ calls[c].asyncData = "resolved"
          /\ "b" \in DOMAIN calls[c].asyncResult
          /\ StepAt(calls[c], "render") > 0
    /\ \E c \in Calls :
          /\ ~HasAsyncData(calls[c].path)
          /\ StepAt(calls[c], "render") > 0

\* The Vue.use calls of call c, in order
UsesBy(c) == SelectSeq(useLog, LAMBDA u : u.by = c)

\* C18 as claimed: a call that resolved getVueClass through its own imports
\* has installed the loaded plugin values in configured order and then the
\* string plugins in the order in which their imports resolved.
C18_InstalledInResolutionOrder ==
    \A c \in Calls :
        (calls[c].vue = "resolved" /\ calls[c].pimp # <<>>) =>
            UsesBy(c) = UseEach(SelectSeq(plugins, IsObject), c)
                           \o UseEach(InResolutionOrder(calls[c]), c)

\* C18 as amended: a call that ran the resolution has installed the loaded
\* plugin values in configured order, synchronously, before any string
\* plugin; once all its imports have resolved it has installed the string
\* plugins after them, in configured order, whatever the order in which the
\* imports resolved.
C18_InstalledInConfiguredOrder ==
    \A c \in Calls :
        LET call == calls[c]
            objects == UseEach(SelectSeq(plugins, IsObject), c)
            strings == UseEach(SelectSeq(plugins, IsString), c)
        IN  /\ (call.pimp # <<>> /\ call.vue # "resolved") => UsesBy(c) = objects
            /\ (call.pimp # <<>> /\ call.vue = "resolved") => UsesBy(c) = objects \o strings
            /\ call.pimp = <<>> => UsesBy(c) \in {<<>>, objects}

\* Two string plugins whose imports resolved in the reverse of the
\* configured order have been installed.
C18_Witness ==
    \E c \in Calls :
        /\ calls[c].vue = "resolved"
        /\ calls[c].pimpOrder = <<2, 1>>
        /\ Len(UsesBy(c)) = 2

\* The string entries of options.plugins, by their index
StringEntries == { i \in DOMAIN plugins : plugins[i].type = "string" }

\* C19: a call whose getVueClass was rejected by a failed plugin import is
\* rejected and has installed no string plugin, and this.Vue is set only if
\* another call resolved the class through its own imports; and a call made
\* while this.Vue is unset starts a fresh resolution: it installs the loaded
\* plugin values again and imports every string plugin again.
C19_FailedResolutionIsNotMemoized ==
    [][ \A c \in Calls :
          /\ calls'[c].vue = "rejected" =>
                /\ calls'[c].promise = "rejected"
                /\ \A k \in DOMAIN useLog' :
                      useLog'[k].by = c => useLog'[k].plugin \notin StringEntries
                /\ thisVue' # Undefined =>
                      \E d \in Calls \ {c} :
                          calls'[d].vue = "resolved" /\ calls'[d].pimp # <<>>
          /\ (calls[c].pc = "idle" /\ calls'[c].pc # "idle"
                /\ thisVue = Undefined /\ StringEntries # {}) =>
                /\ calls'[c].pimp = [i \in StringEntries |-> "pending"]
                /\ calls'[c].vue = "pending"
                /\ useLog' = useLog \o UseEach(SelectSeq(plugins, IsObject), c) ]_vars

\* The first call's plugin import failed; the second call installed the
\* loaded plugin value again, imported the string plugin again and resolved.
C19_Witness ==
    /\ Len(plugins) = 2
    /\ calls[1].vue = "rejected"
    /\ thisVue # Undefined
    /\ calls[2].vue = "resolved" /\ calls[2].pimp # <<>>
    /\ \E k \in DOMAIN useLog : useLog[k].by = 1
    /\ \E k \in DOMAIN useLog : useLog[k].by = 2 /\ IsObject(plugins[useLog[k].plugin])

\* C20: a renderToString call of which nothing is left to run (its imports
\* and its async-data function have settled, the render callback, if the
\* render primitive was invoked, has been called) is settled.
C20_StringCallSettles ==
    \A c \in Calls :
        LET call == calls[c]
        IN  (/\ call.kind = "string"
             /\ call.pc = "done"
             /\ call.cimp # "pending"
             /\ \A i \in DOMAIN call.pimp : call.pimp[i] # "pending"
             /\ call.asyncData # "pending") =>
                call.promise \in {"resolved", "rejected"}

====
